---- MODULE Spec2Model ----
(***************************************************************************)
(* Replay ingestion pipeline of watch_replays.py: the watchdog handler     *)
(* (ReplayEventHandler.on_created), the FIFO parse_queue, the single       *)
(* parse_worker thread running wait_for_stable_file and parse_replay, the  *)
(* processed_replays dict with its JSON file, and the main thread's        *)
(* shutdown path.                                                          *)
(***************************************************************************)
EXTENDS Integers, Sequences, FiniteSets, TLC

\* ---------------------------------------------------------------- bounds
\* File sizes range over 0..MaxSize.
MaxSize == 1
\* stable_seconds arguments range over 0..MaxStable (parse_worker passes 60;
\* the unit is one poll of check_interval).
MaxStable == 1
\* Create events accepted by the filter, over all runs of the script.
MaxEvents == 2
\* Base names of the filter specification have at most MaxNameLen tokens.
MaxNameLen == 4
\* The elapsed-time history saturates at ElapsedCap.
ElapsedCap == 50
\* Frames of wait_for_stable_file the interpreter allows on the worker's stack
\* before it raises RecursionError (sys.getrecursionlimit() is 1000).
MaxDepth == 2

\* ------------------------------------------------------ program constants
\* check_interval = 1
check_interval == 1
\* time.sleep(20) of the verification phase
VerificationSleep == 20
\* verification_seconds=20, the default of wait_for_stable_file
DefaultVerificationSeconds == 20
\* last_size = -1
NoSize == -1

\* -------------------------------------------------------------- file names
\* A base name is a sequence of tokens; each token stands for the text it
\* spells.  PRE is the literal prefix, VER a version text, STAMP a text of the
\* form " @dddd.dd.dd dddddd", DUP the " (1)" of a duplicate, EXT the
\* extension, NL a newline character.
PRE == "MP Replay v"
VER == "101.103.2359.0"
STAMP == " @2025.03.14 202116"
DUP == " (1)"
EXT == ".aoe2record"
NL == "\n"
Tokens == {PRE, VER, STAMP, DUP, EXT, NL}

\* All base names of 1..MaxNameLen tokens.
AllNames == UNION {[1..n -> Tokens] : n \in 1..MaxNameLen}

FinalName == <<PRE, VER, STAMP, EXT>>
DupName == <<PRE, VER, STAMP, DUP, EXT>>

\* A path is <<directory, base name>>.
Dirs == {"de", "hd"}
\* The files whose content the model tracks: the same final name in the two
\* watched directories.
Files == {<<d, FinalName>> : d \in Dirs}
\* The paths create events are delivered for in the pipeline specification.
EventPaths == Files \cup {<<"de", DupName>>}
\* The paths create events are delivered for in the filter specification.
AllPaths == {<<"de", n>> : n \in AllNames}

\* os.path.basename
basename(path) == path[2]
\* The watched directory an event's path lies in.
dirname(path) == path[1]

\* FINAL_REPLAY_REGEX.match(filename):
\*   r"MP Replay v.* @\d{4}\.\d{2}\.\d{2} \d{6}\.aoe2record$"
\* match anchors at the start; "." matches anything but a newline; "$" matches
\* at the end of the string and just before a newline that ends the string.
FINAL_REPLAY_REGEX(filename) ==
    /\ Len(filename) >= 3
    /\ filename[1] = PRE
    /\ \E k \in 2..(Len(filename) - 1) :
          /\ \A i \in 2..(k - 1) : filename[i] # NL
          /\ filename[k] = STAMP
          /\ filename[k + 1] = EXT
          /\ \/ k + 1 = Len(filename)
             \/ k + 2 = Len(filename) /\ filename[k + 2] = NL

\* ------------------------------------------------------------------ state
VARIABLES
    fs,                   \* the watched directories: file -> [exists, size]
    disk,                 \* PROCESSED_REPLAYS_FILE
    processed_replays,    \* the global dict
    parse_queue,          \* Queue(); None is the stop signal
    main,                 \* position of the main thread
    pc,                   \* position of the worker thread
    error,                \* the exception that ended the worker thread
    args,                 \* arguments of the worker's call of wait_for_stable_file
    clock,                \* TRUE when a stopwatch times the worker's waits
    file_path,            \* worker: the path taken from the queue
    stable_seconds,       \* wait_for_stable_file: parameter of the current frame
    verification_seconds, \* wait_for_stable_file: parameter of the current frame
    last_size,            \* wait_for_stable_file: local
    stable_time,          \* wait_for_stable_file: local
    depth,                \* frames of wait_for_stable_file on the worker's stack
    container,            \* type of the value processed_replays is bound to
    dirs,                 \* the configured directories: directory -> what is there
    watches,              \* the watches scheduled on the observer
    \* history
    calls,                \* file -> number of POSTs sent for it (saturates at 2)
    marked,               \* files for which parse_replay ran to its end
    posting,              \* files whose POST is in progress
    active,               \* files taken from the queue and not yet finished
    accepted,             \* number of items put on the queue so far
    tickets,              \* for each queued item, its number in order of arrival
    started,              \* arrival number of the item taken from the queue last
                          \* (of the last item put, when the queue is new)
    elapsed,              \* time slept since file_path last changed
    changes,              \* changes of file_path since it was taken from the queue
    postResult,           \* outcome of the POST of the file in flight
    event                 \* the create event handled last, and what became of it

vars == <<fs, disk, processed_replays, parse_queue, main, pc, error, args, clock,
          file_path, stable_seconds, verification_seconds, last_size,
          stable_time, depth, container, dirs, watches, calls, marked, posting, active, accepted, tickets,
          started, elapsed, changes, postResult, event>>

frame == <<file_path, stable_seconds, verification_seconds, last_size, stable_time,
           depth>>
startup == <<container, dirs, watches>>
history == <<calls, marked, posting, active, accepted, tickets, started,
             elapsed, changes, postResult, event>>

None == <<>>
Record == [status |-> "processed"]
EmptyDict == [f \in {} |-> Record]

NoEvent == [src_path |-> None, is_directory |-> FALSE, queued |-> FALSE]

Min(a, b) == IF a < b THEN a ELSE b

\* ------------------------------------------------------------- persistence
\* json.dump(processed_replays, f): the text of a JSON object, one member
\* per key.
json_dump(d) == [kind |-> "json", members |-> {<<k, d[k].status>> : k \in DOMAIN d}]

\* open(..., "w") truncates the file before anything is written.
Truncated == [kind |-> "partial", members |-> {}]
Missing == [kind |-> "missing", members |-> {}]
\* A file open(..., "r") or the decoding of its bytes fails on: no permission,
\* a directory of that name, bytes that are no UTF-8.
Unreadable == [kind |-> "unreadable", members |-> {}]
\* The text of a JSON value that is no object: the array [].
JsonList == [kind |-> "list", members |-> {}]

\* load_processed_replays: FileNotFoundError and JSONDecodeError give {}.
load_processed_replays(file) ==
    IF file.kind = "json"
    THEN [k \in {m[1] : m \in file.members} |->
            [status |-> (CHOOSE m \in file.members : m[1] = k)[2]]]
    ELSE EmptyDict

\* Line 42: open and read raise PermissionError, IsADirectoryError or
\* UnicodeDecodeError, which line 44 does not catch.
open_raises(file) == file.kind = "unreadable"

\* The type of what json.load returns and line 43 binds to processed_replays:
\* a dict for a JSON object, a list for a JSON array (the empty list and the
\* empty dict have no members; both are the empty function here).
json_load_type(file) == IF file.kind = "list" THEN "list" ELSE "dict"

\* The files PROCESSED_REPLAYS_FILE may be when the script starts.
StoreFiles ==
    {Missing, Truncated, Unreadable, JsonList, json_dump(EmptyDict),
     json_dump([f \in {<<"de", FinalName>>} |-> Record])}

\* ------------------------------------------------------------ directories
\* What is at the path of a configured directory: a directory that can be
\* listed, nothing, or something that exists and cannot be watched (a regular
\* file, a directory without read permission).
DirStates == {"usable", "missing", "unusable"}
AllUsable == [d \in Dirs |-> "usable"]

\* Lines 202-207: every directory that os.path.exists finds is scheduled,
\* with recursive=False; a watch is <<directory, recursive>>.
schedule(directories) ==
    {<<d, FALSE>> : d \in {x \in DOMAIN directories : directories[x] # "missing"}}

\* ------------------------------------------------------------------- Init
StableArgs == 0..MaxStable
VerificationArgs == {0, DefaultVerificationSeconds, DefaultVerificationSeconds + 2}

NoFiles == [f \in Files |-> [exists |-> FALSE, size |-> 0]]
WorkerArgs == [stable_seconds |-> MaxStable,
               verification_seconds |-> DefaultVerificationSeconds]

\* The script has just started (lines 17-131, 199-209): the dict is loaded,
\* the worker blocks in parse_queue.get(), the observer runs.  theArgs are the
\* arguments the worker passes to wait_for_stable_file, files the content of
\* the watched directories, queue the candidates already accepted; timed tells
\* whether the waits of the worker are timed (the elapsed and changes history).
Started(theArgs, files, queue, timed) ==
    /\ fs = files
    /\ disk = Missing
    /\ processed_replays = load_processed_replays(Missing)
    /\ parse_queue = queue
    /\ main = "watching"
    /\ pc = "get"
    /\ error = "none"
    /\ args = theArgs
    /\ clock = timed
    /\ file_path = None
    /\ stable_seconds = 0
    /\ verification_seconds = 0
    /\ last_size = NoSize
    /\ stable_time = 0
    /\ depth = 0
    /\ container = json_load_type(Missing)
    /\ dirs = AllUsable
    /\ watches = schedule(AllUsable)
    /\ calls = [f \in Files |-> 0]
    /\ marked = {}
    /\ posting = {}
    /\ active = {}
    /\ accepted = Len(queue)
    /\ tickets = [i \in 1..Len(queue) |-> i]
    /\ started = 0
    /\ elapsed = 0
    /\ changes = "none"
    /\ postResult = "none"
    /\ event = NoEvent

Init == Started(WorkerArgs, NoFiles, <<>>, FALSE)

store == <<disk, processed_replays>>
order == <<accepted, tickets, started>>
timing == <<elapsed, changes>>

\* --------------------------------------------------------- the file system
\* The phases of wait_for_stable_file's first stability check.
FirstPass == {"while", "getsize", "getsize2"}

\* What a change of file f does to the timing history of the file in flight:
\* the time since its last change restarts, and the change is classified as
\* the single size change of a first pass or as anything else.
Changed(f, sizeChange) ==
    IF clock /\ f = file_path /\ file_path \in active
    THEN /\ elapsed' = 0
         /\ changes' = IF changes = "none" /\ sizeChange /\ pc \in FirstPass
                       THEN "once" ELSE "other"
    ELSE UNCHANGED timing

\* The game (or the user) creates file f, empty.
FsCreate(f) ==
    /\ ~fs[f].exists
    /\ fs' = [fs EXCEPT ![f] = [exists |-> TRUE, size |-> 0]]
    /\ Changed(f, FALSE)
    /\ UNCHANGED <<store, startup, parse_queue, main, pc, error, args, clock, frame, calls,
                   marked, posting, active, order, postResult,
                   event>>

\* A write changes the size of f.
FsWrite(f) ==
    /\ fs[f].exists
    /\ \E n \in 0..MaxSize :
          /\ n # fs[f].size
          /\ fs' = [fs EXCEPT ![f].size = n]
    /\ Changed(f, TRUE)
    /\ UNCHANGED <<store, startup, parse_queue, main, pc, error, args, clock, frame, calls,
                   marked, posting, active, order, postResult,
                   event>>

\* f is deleted or moved away.
FsDelete(f) ==
    /\ fs[f].exists
    /\ fs' = [fs EXCEPT ![f] = [exists |-> FALSE, size |-> 0]]
    /\ Changed(f, FALSE)
    /\ UNCHANGED <<store, startup, parse_queue, main, pc, error, args, clock, frame, calls,
                   marked, posting, active, order, postResult,
                   event>>

\* ------------------------------------------------------------ the watcher
\* A put that adds at the head: the queue of a LifoQueue.
put_front(queue, item) == <<item>> \o queue

\* parse_queue.put(item)
put(queue, item) == Append(queue, item)

\* The positions of the main thread at which the observer thread may still be
\* calling handlers: before observer.stop(), and until observer.join() returns.
Observing == {"watching", "stopping"}

\* A handler that is still called after observer.join() has returned.
on_created_unjoined(src_path, is_directory) ==
    /\ main \in Observing \cup {"stopped", "joining"}
    /\ <<dirname(src_path), FALSE>> \in watches
    /\ dirs[dirname(src_path)] = "usable"
    /\ accepted < MaxEvents
    /\ IF is_directory
       THEN UNCHANGED <<parse_queue, accepted, tickets>>
       ELSE IF FINAL_REPLAY_REGEX(basename(src_path))
            THEN /\ parse_queue' = put(parse_queue, src_path)
                 /\ accepted' = accepted + 1
                 /\ tickets' = put(tickets, accepted + 1)
            ELSE UNCHANGED <<parse_queue, accepted, tickets>>
    /\ UNCHANGED <<fs, startup, store, main, pc, error, args, clock, frame, calls, marked,
                   posting, active, started, timing, postResult>>

\* ReplayEventHandler.on_created(event), called by the observer thread while
\* the observer runs.
on_created(src_path, is_directory) ==
    /\ main \in Observing
    /\ <<dirname(src_path), FALSE>> \in watches
    /\ dirs[dirname(src_path)] = "usable"
    /\ accepted < MaxEvents
    /\ IF is_directory
       THEN UNCHANGED <<parse_queue, accepted, tickets>>
       ELSE IF FINAL_REPLAY_REGEX(basename(src_path))
            THEN /\ parse_queue' = put(parse_queue, src_path)
                 /\ accepted' = accepted + 1
                 /\ tickets' = put(tickets, accepted + 1)
            ELSE UNCHANGED <<parse_queue, accepted, tickets>>
    /\ UNCHANGED <<fs, startup, store, main, pc, error, args, clock, frame, calls, marked,
                   posting, active, started, timing, postResult>>

\* ------------------------------------------------------------- the worker
\* time.sleep(seconds), seen from the file in flight.
Sleep(seconds) ==
    elapsed' = IF clock THEN Min(elapsed + seconds, ElapsedCap) ELSE elapsed

\* wait_for_stable_file(path, s, v) is entered as frame d: lines 82-84.
Enter(path, s, v, d) ==
    /\ depth' = d
    /\ file_path' = path
    /\ stable_seconds' = s
    /\ verification_seconds' = v
    /\ last_size' = NoSize
    /\ stable_time' = 0
    /\ pc' = "while"

\* wait_for_stable_file returns to parse_worker, which calls task_done and
\* blocks in parse_queue.get() again.
Return ==
    /\ pc' = "get"
    /\ file_path' = None
    /\ stable_seconds' = 0
    /\ verification_seconds' = 0
    /\ last_size' = NoSize
    /\ stable_time' = 0
    /\ depth' = 0
    /\ active' = active \ {file_path}
    /\ elapsed' = 0
    /\ changes' = "none"
    /\ postResult' = "none"

\* An exception nobody catches ends the worker thread.
Raise(exception) ==
    /\ pc' = "dead"
    /\ error' = exception

\* A worker that takes the next item while the POST of the current one is
\* still in progress.
parse_worker_early ==
    /\ pc \in {"get", "post"}
    /\ parse_queue # <<>>
    /\ parse_queue' = Tail(parse_queue)
    /\ tickets' = Tail(tickets)
    /\ IF Head(parse_queue) = None
       THEN /\ pc' = "done"
            /\ UNCHANGED <<frame, active, started>>
       ELSE /\ Enter(Head(parse_queue), args.stable_seconds, args.verification_seconds, 1)
            /\ active' = active \cup {Head(parse_queue)}
            /\ started' = Head(tickets)
    /\ UNCHANGED <<fs, startup, store, main, error, args, clock, calls, marked, posting,
                   accepted, timing, postResult, event>>

\* parse_worker: file_path = parse_queue.get(); None breaks the loop, any
\* other item is passed to wait_for_stable_file.
parse_worker ==
    /\ pc = "get"
    /\ parse_queue # <<>>
    /\ parse_queue' = Tail(parse_queue)
    /\ tickets' = Tail(tickets)
    /\ IF Head(parse_queue) = None
       THEN /\ pc' = "done"
            /\ UNCHANGED <<frame, active, started>>
       ELSE /\ Enter(Head(parse_queue), args.stable_seconds, args.verification_seconds, 1)
            /\ active' = active \cup {Head(parse_queue)}
            /\ started' = Head(tickets)
    /\ UNCHANGED <<fs, startup, store, main, error, args, clock, calls, marked, posting,
                   accepted, timing, postResult,
                   event>>

\* Lines 87-90 and 101-104: the loop test; inside the loop the existence
\* test, after the loop the verification sleep.
wait_while ==
    /\ pc = "while"
    /\ IF stable_time < stable_seconds
       THEN IF ~fs[file_path].exists
            THEN Return
            ELSE /\ pc' = "getsize"
                 /\ UNCHANGED <<frame, active, timing, postResult>>
       ELSE /\ pc' = "verify"
            /\ Sleep(VerificationSleep)
            /\ UNCHANGED <<frame, active, changes, postResult>>
    /\ UNCHANGED <<fs, startup, store, parse_queue, main, error, args, clock, calls, marked,
                   posting, order,
                   event>>

\* Lines 92-96 and 99: os.path.getsize raises FileNotFoundError for a missing
\* file; an unchanged size adds check_interval to stable_time, and the poll
\* ends with time.sleep(check_interval).
wait_getsize ==
    /\ pc = "getsize"
    /\ IF ~fs[file_path].exists
       THEN /\ Raise("FileNotFoundError")
            /\ UNCHANGED <<stable_time, elapsed>>
       ELSE IF fs[file_path].size = last_size
            THEN /\ stable_time' = stable_time + check_interval
                 /\ Sleep(check_interval)
                 /\ pc' = "while"
                 /\ UNCHANGED error
            ELSE /\ stable_time' = 0
                 /\ pc' = "getsize2"
                 /\ UNCHANGED <<error, elapsed>>
    /\ UNCHANGED <<fs, startup, store, parse_queue, main, args, clock, file_path, stable_seconds,
                   verification_seconds, last_size, depth, calls, marked, posting,
                   active, order, changes, postResult,
                   event>>

\* Lines 97 and 99: the size is read a second time into last_size, and the
\* poll ends with time.sleep(check_interval).
wait_getsize2 ==
    /\ pc = "getsize2"
    /\ IF ~fs[file_path].exists
       THEN /\ Raise("FileNotFoundError")
            /\ UNCHANGED <<last_size, elapsed>>
       ELSE /\ last_size' = fs[file_path].size
            /\ Sleep(check_interval)
            /\ pc' = "while"
            /\ UNCHANGED error
    /\ UNCHANGED <<fs, startup, store, parse_queue, main, args, clock, file_path, stable_seconds,
                   verification_seconds, stable_time, depth, calls, marked, posting,
                   active, order, changes, postResult,
                   event>>

\* Lines 105-111: the size is read again; equal to last_size, parse_replay is
\* called; otherwise wait_for_stable_file(file_path, stable_seconds) is called
\* from within itself, with the default verification_seconds, and the
\* interpreter raises RecursionError when the stack is full.
wait_verify ==
    /\ pc = "verify"
    /\ IF ~fs[file_path].exists
       THEN /\ Raise("FileNotFoundError")
            /\ UNCHANGED frame
       ELSE IF fs[file_path].size = last_size
            THEN /\ pc' = "parse"
                 /\ UNCHANGED <<frame, error>>
            ELSE IF depth < MaxDepth
                 THEN /\ Enter(file_path, stable_seconds, DefaultVerificationSeconds,
                               depth + 1)
                      /\ UNCHANGED error
                 ELSE /\ Raise("RecursionError")
                      /\ UNCHANGED frame
    /\ UNCHANGED <<fs, startup, store, parse_queue, main, args, clock, history>>

\* ----------------------------------------------------------- parse_replay
\* The outcomes of requests.post: status 200, another status, or an exception
\* (timeout, connection refused); lines 64-72 log each and go on.
PostResults == {"200", "status", "exception"}

Saturate(n) == Min(n + 1, 2)

\* A parse_replay that marks the path before the POST is sent.
parse_replay_marks_first ==
    /\ pc = "parse"
    /\ IF file_path \in DOMAIN processed_replays
       THEN /\ Return
            /\ UNCHANGED <<calls, posting, processed_replays>>
       ELSE /\ pc' = "post"
            /\ calls' = [calls EXCEPT ![file_path] = Saturate(@)]
            /\ posting' = posting \cup {file_path}
            /\ processed_replays' =
                  [k \in DOMAIN processed_replays \cup {file_path} |->
                      IF k = file_path THEN Record ELSE processed_replays[k]]
            /\ UNCHANGED <<frame, active, timing, postResult>>
    /\ UNCHANGED <<fs, startup, disk, parse_queue, main, error, args, clock, marked,
                   order, event>>

\* Lines 57-66: a path already in processed_replays returns at once; for any
\* other the POST is sent.
parse_replay ==
    /\ pc = "parse"
    /\ IF file_path \in DOMAIN processed_replays
       THEN /\ Return
            /\ UNCHANGED <<calls, posting>>
       ELSE /\ pc' = "post"
            /\ calls' = [calls EXCEPT ![file_path] = Saturate(@)]
            /\ posting' = posting \cup {file_path}
            /\ UNCHANGED <<frame, active, timing, postResult>>
    /\ UNCHANGED <<fs, startup, store, parse_queue, main, error, args, clock, marked, order,
                   event>>

\* Lines 66-75: the call ends with any of its outcomes, and the path is marked
\* in the dict; processed_replays[file_path] = ... on a list raises TypeError.
parse_replay_mark(result) ==
    /\ pc = "post"
    /\ posting' = posting \ {file_path}
    /\ postResult' = result
    /\ IF container = "dict"
       THEN /\ pc' = "open"
            /\ processed_replays' =
                  [k \in DOMAIN processed_replays \cup {file_path} |->
                      IF k = file_path THEN Record ELSE processed_replays[k]]
            /\ UNCHANGED error
       ELSE /\ Raise("TypeError")
            /\ UNCHANGED processed_replays
    /\ UNCHANGED <<fs, startup, disk, parse_queue, main, args, clock, frame, calls,
                   marked, active, order, timing,
                   event>>

\* Line 49: open(PROCESSED_REPLAYS_FILE, "w") truncates the file, or raises
\* OSError (no permission, read-only file system) and leaves it alone.
save_open(ok) ==
    /\ pc = "open"
    /\ IF ok
       THEN /\ disk' = Truncated
            /\ pc' = "dump"
            /\ UNCHANGED error
       ELSE /\ Raise("OSError")
            /\ UNCHANGED disk
    /\ UNCHANGED <<fs, startup, processed_replays, parse_queue, main, args, clock, frame, history>>

\* Line 50: json.dump writes the whole dict and the file is closed, or the
\* write raises OSError (disk full) and leaves a partial text.  After it
\* parse_replay and wait_for_stable_file return.
save_dump(ok) ==
    /\ pc = "dump"
    /\ IF ok
       THEN /\ disk' = json_dump(processed_replays)
            /\ marked' = marked \cup {file_path}
            /\ Return
            /\ UNCHANGED error
       ELSE /\ Raise("OSError")
            /\ UNCHANGED <<disk, marked, frame, active, timing, postResult>>
    /\ UNCHANGED <<fs, startup, processed_replays, parse_queue, main, args, clock, calls,
                   posting, order,
                   event>>

\* -------------------------------------------------------- the main thread
\* Lines 213-215: KeyboardInterrupt in the watch loop; observer.stop().
KeyboardInterrupt ==
    /\ main = "watching"
    /\ main' = "stopping"
    /\ UNCHANGED <<fs, startup, store, parse_queue, pc, error, args, clock, frame, history>>

\* Line 216: observer.join() returns when the observer thread has ended; no
\* handler is called after it.
observer_join ==
    /\ main = "stopping"
    /\ main' = "stopped"
    /\ UNCHANGED <<fs, startup, store, parse_queue, pc, error, args, clock, frame, history>>

\* Line 232: parse_queue.put(None).
put_stop ==
    /\ main = "stopped"
    /\ main' = "joining"
    /\ parse_queue' = put(parse_queue, None)
    /\ tickets' = put(tickets, 0)
    /\ UNCHANGED <<fs, startup, store, pc, error, args, clock, frame, calls, marked, posting,
                   active, accepted, started, timing, postResult,
                   event>>

\* Line 233: worker_thread.join() returns once the worker thread has ended.
worker_join ==
    /\ main = "joining"
    /\ pc \in {"done", "dead"}
    /\ main' = "exited"
    /\ UNCHANGED <<fs, startup, store, parse_queue, pc, error, args, clock, frame, history>>

\* The script is started (again): a new queue and worker thread (lines
\* 118-131), an empty dict (line 26), load_processed_replays (line 199), whose
\* uncaught exception ends the process, the watches (lines 202-207) and a
\* running observer (line 209).
Restart ==
    /\ main = "exited"
    /\ IF open_raises(disk)
       THEN /\ main' = "aborted"
            /\ processed_replays' = EmptyDict
            /\ container' = "dict"
            /\ watches' = {}
       ELSE /\ main' = "watching"
            /\ processed_replays' = load_processed_replays(disk)
            /\ container' = json_load_type(disk)
            /\ watches' = schedule(dirs)
    /\ parse_queue' = <<>>
    /\ pc' = "get"
    /\ error' = "none"
    /\ file_path' = None
    /\ stable_seconds' = 0
    /\ verification_seconds' = 0
    /\ last_size' = NoSize
    /\ stable_time' = 0
    /\ depth' = 0
    /\ posting' = {}
    /\ active' = {}
    /\ tickets' = <<>>
    /\ started' = accepted
    /\ elapsed' = 0
    /\ changes' = "none"
    /\ postResult' = "none"
    /\ UNCHANGED <<fs, disk, dirs, args, clock, calls, marked, accepted, event>>

\* ------------------------------------------------------------------- Next
\* The observer delivers a create event of a watched directory.
created ==
    \E p \in EventPaths, d \in BOOLEAN :
        on_created(p, d) /\ UNCHANGED event

Next ==
    \/ \E f \in Files : FsCreate(f)
    \/ \E f \in Files : FsWrite(f)
    \/ \E f \in Files : FsDelete(f)
    \/ created
    \/ parse_worker
    \/ wait_while
    \/ wait_getsize
    \/ wait_getsize2
    \/ wait_verify
    \/ parse_replay
    \/ \E r \in PostResults : parse_replay_mark(r)
    \/ \E ok \in BOOLEAN : save_open(ok)
    \/ \E ok \in BOOLEAN : save_dump(ok)
    \/ KeyboardInterrupt
    \/ observer_join
    \/ put_stop
    \/ worker_join
    \/ Restart

Spec == Init /\ [][Next]_vars

\* ------------------------------------------------- the pipeline, scheduled
\* A step of the worker thread.
worker ==
    \/ parse_worker
    \/ wait_while
    \/ wait_getsize
    \/ wait_getsize2
    \/ wait_verify
    \/ parse_replay
    \/ \E r \in PostResults : parse_replay_mark(r)
    \/ \E ok \in BOOLEAN : save_open(ok)
    \/ \E ok \in BOOLEAN : save_dump(ok)

\* Both threads are scheduled: every sleep ends, requests.post returns or
\* times out (timeout=120), the observer thread ends once stopped, and a
\* thread that can take a step takes it.  Nothing is assumed of the files or
\* of the user.
LiveSpec ==
    /\ Init
    /\ [][Next]_vars
    /\ WF_vars(worker)
    /\ WF_vars(observer_join)
    /\ WF_vars(put_stop)
    /\ WF_vars(worker_join)

\* ------------------------------------------- the filter, for all base names
\* on_created applied to one event of AllPaths, with the event and what became
\* of it recorded.
filter_event ==
    \E p \in AllPaths, d \in BOOLEAN :
        /\ on_created(p, d)
        /\ event' = [src_path |-> p, is_directory |-> d,
                     queued |-> parse_queue' # parse_queue]

\* The script has started and has accepted all create events but one.
FilterInit ==
    Started(WorkerArgs, NoFiles, [i \in 1..(MaxEvents - 1) |-> <<"hd", FinalName>>],
            FALSE)

FilterSpec == FilterInit /\ [][filter_event]_vars

\* ------------------------------- wait_for_stable_file, for all its arguments
TestFile == <<"de", FinalName>>

\* TestFile exists, with any size, and is the one candidate of the queue; the
\* worker passes any stable_seconds and verification_seconds.
StabilityInit ==
    \E a \in [stable_seconds : StableArgs, verification_seconds : VerificationArgs],
       n \in 0..MaxSize :
        Started(a, [NoFiles EXCEPT ![TestFile] = [exists |-> TRUE, size |-> n]],
                <<TestFile>>, TRUE)

StabilityNext ==
    \/ FsCreate(TestFile)
    \/ FsWrite(TestFile)
    \/ FsDelete(TestFile)
    \/ parse_worker
    \/ wait_while
    \/ wait_getsize
    \/ wait_getsize2
    \/ wait_verify
    \/ parse_replay
    \/ \E r \in PostResults : parse_replay_mark(r)
    \/ \E ok \in BOOLEAN : save_open(ok)
    \/ \E ok \in BOOLEAN : save_dump(ok)

StabilitySpec == StabilityInit /\ [][StabilityNext]_vars

\* ------------------------------------------- start-up, for all its inputs
\* The script is about to be started: PROCESSED_REPLAYS_FILE is any of
\* StoreFiles and each configured directory is in any of DirStates.
StartupInit ==
    \E file \in StoreFiles, ds \in [Dirs -> DirStates] :
        /\ fs = NoFiles
        /\ disk = file
        /\ processed_replays = EmptyDict
        /\ container = "dict"
        /\ dirs = ds
        /\ watches = {}
        /\ parse_queue = <<>>
        /\ main = "exited"
        /\ pc = "done"
        /\ error = "none"
        /\ args = WorkerArgs
        /\ clock = FALSE
        /\ file_path = None
        /\ stable_seconds = 0
        /\ verification_seconds = 0
        /\ last_size = NoSize
        /\ stable_time = 0
        /\ depth = 0
        /\ calls = [f \in Files |-> 0]
        /\ marked = {}
        /\ posting = {}
        /\ active = {}
        /\ accepted = 0
        /\ tickets = <<>>
        /\ started = 0
        /\ elapsed = 0
        /\ changes = "none"
        /\ postResult = "none"
        /\ event = NoEvent

\* The script starts and runs; it is not interrupted.
StartupNext ==
    \/ Restart
    \/ \E f \in Files : FsCreate(f)
    \/ \E f \in Files : FsWrite(f)
    \/ \E f \in Files : FsDelete(f)
    \/ created
    \/ parse_worker
    \/ wait_while
    \/ wait_getsize
    \/ wait_getsize2
    \/ wait_verify
    \/ parse_replay
    \/ \E r \in PostResults : parse_replay_mark(r)
    \/ \E ok \in BOOLEAN : save_open(ok)
    \/ \E ok \in BOOLEAN : save_dump(ok)

StartupSpec == StartupInit /\ [][StartupNext]_vars

\* ================================================================= claims
Candidates(queue) == SelectSeq(queue, LAMBDA x : x # None)
Checking == {"while", "getsize", "getsize2", "verify"}
Running == main # "exited"

\* C1: for every path, over any create events and any number of restarts that
\* reload the dedup store, the parse collaborator is invoked at most once.
C1_AtMostOncePerPath == \A f \in Files : calls[f] <= 1

\* C2: once parse_replay has marked and saved a path, the path is in
\* processed_replays in this and in every later run of the script, and the
\* saved file, when loaded, holds every path marked so far.
C2_MarkedStaysProcessed ==
    /\ Running => marked \subseteq DOMAIN processed_replays
    /\ disk.kind = "json" => marked \subseteq DOMAIN load_processed_replays(disk)

\* C3: at most one file is in flight: at most one POST is in progress, at most
\* one file has been taken from the queue and is not finished, and the worker
\* waits in parse_queue.get() only when the file it took is finished.
C3_OneFileInFlight ==
    /\ Cardinality(posting) <= 1
    /\ Cardinality(active) <= 1
    /\ posting \subseteq active
    /\ pc = "get" => active = {}

\* A POST is in progress while another candidate waits in the queue.
C3_Witness == posting # {} /\ Candidates(parse_queue) # <<>>

\* C4: candidates are taken in the order they were put: the candidates in the
\* queue are, in this order, exactly those that arrived after the one taken
\* last, and a candidate is taken only when the one before it is finished.
C4_TakenInArrivalOrder ==
    /\ Len(tickets) = Len(parse_queue)
    /\ SelectSeq(tickets, LAMBDA n : n # 0) = [i \in 1..(accepted - started) |-> started + i]
    /\ \A i \in 1..Len(tickets) : tickets[i] = 0 <=> parse_queue[i] = None
    /\ Cardinality(active) <= 1

\* The second of two candidates is being processed after the first was
\* recorded.
C4_Witness == started = 2 /\ active # {} /\ marked # {} /\ ~(active \subseteq marked)

\* C5: no accepted candidate is lost: while a candidate waits in the queue the
\* consumer is alive to take it, whatever happened to the candidates before it.
C5_QueuedIsServed == Candidates(parse_queue) # <<>> => pc # "dead"

\* C7: a stability check that finds its file gone ends as Disappeared: the
\* worker returns to the queue, no POST is sent and the path has no record.
C7_DisappearedIsAbandoned ==
    [][(/\ pc \in Checking
        /\ pc = "while" => stable_time < stable_seconds
        /\ ~fs[file_path].exists
        /\ pc' # pc)
       => (/\ pc' = "get"
           /\ calls' = calls
           /\ file_path \notin DOMAIN processed_replays')]_vars

\* C8: a POST that failed leaves the path recorded, exactly one call made for
\* it, and the worker alive to drain the rest of the queue.
C8_FailedCallIsRecorded ==
    postResult \in {"status", "exception"} =>
        /\ file_path \in DOMAIN processed_replays
        /\ calls[file_path] <= 1
        /\ pc # "dead"

\* C10: every path is in exactly one of the states not seen, queued, being
\* stability-checked, recorded: never queued twice, never queued while
\* checked, never queued or checked while recorded.
C10_ExactlyOneState ==
    \A f \in Files :
        Len(SelectSeq(parse_queue, LAMBDA x : x = f))
          + (IF file_path = f /\ pc \in Checking THEN 1 ELSE 0)
          + (IF f \in DOMAIN processed_replays THEN 1 ELSE 0) <= 1

\* C6: for every stable_seconds and verification_seconds, a file whose size
\* changes once during the first pass and then stays constant is found stable
\* no sooner than stable_seconds + verification_seconds after that change.
C6_StableAfterFullWait ==
    (pc = "parse" /\ changes = "once") =>
        elapsed >= args.stable_seconds + args.verification_seconds

\* The final-replay pattern of the claim: the prefix, a version (any text of
\* one line), the date and time, and the extension at the end of the name.
FinalReplayPattern(filename) ==
    /\ Len(filename) >= 3
    /\ filename[1] = PRE
    /\ \A i \in 2..(Len(filename) - 2) : filename[i] # NL
    /\ filename[Len(filename) - 1] = STAMP
    /\ filename[Len(filename)] = EXT

\* C9: a create event puts its path on the queue if and only if the entry is
\* no directory and its base name matches the final-replay pattern.
C9_QueuedIffFinalName ==
    event # NoEvent =>
        (event.queued <=>
            ~event.is_directory /\ FinalReplayPattern(basename(event.src_path)))

\* C11: a file that disappears at any point of the stability check does not
\* end the consumer loop: the worker thread is never ended by the
\* FileNotFoundError of a size read.
C11_DisappearanceNotFatal == ~(pc = "dead" /\ error = "FileNotFoundError")

\* C12: a failure to write the store is not fatal: the worker thread is never
\* ended by the OSError of save_processed_replays, and while the script runs
\* the path it was saving stays in processed_replays.
C12_SaveFailureNotFatal ==
    /\ ~(pc = "dead" /\ error = "OSError")
    /\ (pc \in {"open", "dump"} \/ error = "OSError") =>
          file_path \in DOMAIN processed_replays

\* C13: whatever PROCESSED_REPLAYS_FILE is at start-up, loading does not end
\* the process and leaves a mapping on which the membership test and the
\* marking of parse_replay do not fail.
C13_LoadNeverFails == main # "aborted" /\ error # "TypeError"

\* C14: shutdown goes observer stopped, sentinel put, worker joined: the
\* sentinel is put only after the observer has ended, nothing is ever queued
\* behind it, the worker that took it has left its loop with no file in
\* flight, and the join returns only when the worker thread has ended.
C14_ShutdownInOrder ==
    /\ \A i \in 1..Len(parse_queue) :
          parse_queue[i] = None =>
              i = Len(parse_queue) /\ main \in {"joining", "exited"}
    /\ pc = "done" =>
          /\ main \in {"joining", "exited"}
          /\ parse_queue = <<>>
          /\ active = {} /\ posting = {} /\ file_path = None
    /\ main = "exited" => pc \in {"done", "dead"}

\* The sentinel waits behind a candidate while a file is in flight, during a
\* shutdown that began with events still arriving.
C14_Witness ==
    /\ Len(parse_queue) >= 2
    /\ parse_queue[Len(parse_queue)] = None
    /\ active # {}
    /\ main = "joining"

\* C15: after the shutdown signal the worker thread finishes, the join returns
\* and the script exits, whatever is queued or in flight at the signal.
C15_ShutdownTerminates == (main = "stopping") ~> (main = "exited")

\* C16: the sleep between the end of the first pass and the verification read
\* lasts the verification_seconds the caller passed, in the first attempt and
\* in every restarted one.
C16_VerificationWaitIsArgument ==
    [][(pc = "while" /\ pc' = "verify") =>
          elapsed' = Min(elapsed + args.verification_seconds, ElapsedCap)]_vars

\* C17: the store is replaced atomically: at every moment, the script being
\* stopped there, the file read at the next start holds every path that was
\* marked and saved before.
C17_StoreFileAlwaysWhole == marked \subseteq DOMAIN load_processed_replays(disk)

\* C18: once the script has started, the watches are exactly the configured
\* directories that are usable, each non-recursive: a directory that is
\* missing or cannot be watched is skipped and the others are watched.
C18_WatchesAreUsableDirs ==
    main = "watching" =>
        watches = {<<d, FALSE>> : d \in {x \in Dirs : dirs[x] = "usable"}}

\* C19: a candidate taken from the queue whose path is already recorded is
\* skipped at once: no recorded path is ever in the stability check.
C19_RecordedSkipsTheCheck ==
    pc \in Checking => file_path \notin DOMAIN processed_replays

\* C20: the verification read decides: a size equal to the one held leads to
\* parse_replay; a different size leads, any number of times, to a first pass
\* restarted from zero (stable_time 0, no remembered size, the same
\* stable_seconds) with no POST sent and no record made.
C20_ChangedSizeRestarts ==
    [][(pc = "verify" /\ pc' # pc /\ fs[file_path].exists) =>
          IF fs[file_path].size = last_size
          THEN pc' = "parse"
          ELSE /\ pc' = "while"
               /\ stable_time' = 0
               /\ last_size' = NoSize
               /\ stable_seconds' = stable_seconds
               /\ file_path' = file_path
               /\ calls' = calls
               /\ processed_replays' = processed_replays]_vars

\* C21: in the first pass stable_time counts the consecutive most recent polls
\* whose size equalled the size of the poll before (the size a poll leaves in
\* last_size): a poll that ends with the size of the poll before adds 1, a
\* poll that ends with another size, and the first poll of a pass, give 0,
\* and the verification sleep starts only with stable_time at stable_seconds.
C21_CounterCountsUnchangedPolls ==
    [][/\ (pc \in {"getsize", "getsize2"} /\ pc' = "while") =>
             stable_time' = IF last_size' = last_size
                            THEN (IF pc = "getsize" THEN stable_time ELSE 0) + 1
                            ELSE 0
       /\ (pc \in {"getsize", "getsize2"} /\ pc' = "while" /\ last_size = NoSize) =>
             stable_time' = 0
       /\ (pc = "while" /\ pc' = "verify") => stable_time >= stable_seconds]_vars

\* C22: within a run of the script a record is created only by the worker,
\* for the path in flight, in the step that ends the POST sent for that path
\* in this run (with any outcome); no other step adds a record, and no step
\* removes or changes one.
C22_RecordedOnlyAfterCall ==
    [][main # "exited" =>
          /\ \A k \in DOMAIN processed_replays :
                /\ k \in DOMAIN processed_replays'
                /\ processed_replays'[k] = processed_replays[k]
          /\ \A k \in DOMAIN processed_replays' \ DOMAIN processed_replays :
                /\ k = file_path
                /\ pc = "post" /\ pc' = "open"
                /\ k \in posting /\ k \notin posting'
                /\ postResult' \in PostResults
                /\ calls[k] >= 1
                /\ processed_replays'[k] = Record]_vars

\* A record was just made after a POST that raised, while a candidate that
\* has no record waits in the queue.
C22_Witness ==
    /\ pc = "open"
    /\ postResult = "exception"
    /\ file_path \in DOMAIN processed_replays
    /\ \E i \in 1..Len(parse_queue) :
          parse_queue[i] # None /\ parse_queue[i] \notin DOMAIN processed_replays

====
